---- MODULE Spec2Model ----
(***************************************************************************)
(* Model of agb's save-media coordination layer (agb/src/save/mod.rs):     *)
(* the backend registry CURRENT_SAVE_ACCESS, the media lock, SaveData      *)
(* (the accessor), SavePreparedBlock and SaveManager.                      *)
(*                                                                         *)
(* usize is usize_bits wide (WordBits, or one bit more in SpecWide); every *)
(* usize operation is computed in that width.  A buffer is represented by  *)
(* its length (its bytes are passed to the backend untouched).  The        *)
(* backend (trait RawSaveAccess) is external: each of its results is a     *)
(* nondeterministic input of the calling action.                           *)
(***************************************************************************)
EXTENDS Integers, Sequences, FiniteSets, TLC

\* ------------------------------------------------------------------ bounds
WordBits == 3
MaxShift == 2
MaxSectors == 3
MaxBufLen == 7

VARIABLES
  usize_bits,       \* target: the width of usize
  overflow_checks,  \* build profile: are integer overflows checked?
  registry,         \* CURRENT_SAVE_ACCESS
  locked,           \* the media lock taken by utils::lock_media
  acc,              \* per context: the live SaveData, or NoAcc
  block,            \* per context: the live SavePreparedBlock, or NoBlock
  last,             \* the last call: arguments, result, backend invocations
  inflight,         \* backend operations entered and not yet returned from
  irq,              \* an interrupt handler is running
  aborted           \* the process has panicked

vars == <<usize_bits, overflow_checks, registry, locked, acc, block, last,
          inflight, irq, aborted>>

Word == 2 ^ usize_bits
Usize == 0 .. (Word - 1)
\* a slice is never longer than isize::MAX bytes
IsizeMax == (Word \div 2) - 1
Min(a, b) == IF a < b THEN a ELSE b
BufLens == 0 .. Min(MaxBufLen, IsizeMax)
Shifts == 0 .. Min(MaxShift, WordBits - 1)
Ranges == [start : Usize, end : Usize]
Range(s, e) == [start |-> s, end |-> e]

\* ------------------------------------------------------- usize arithmetic
RECURSIVE BitAndRec(_, _, _)
BitAndRec(a, b, k) ==
  IF k = 0 THEN 0
  ELSE (a % 2) * (b % 2) + 2 * BitAndRec(a \div 2, b \div 2, k - 1)

BitAnd(a, b) == BitAndRec(a, b, usize_bits)
BitNot(a) == (Word - 1) - a
\* `a << s` for s < usize_bits: the bits shifted out are lost
Shl(a, s) == (a * (2 ^ s)) % Word
Shr(a, s) == a \div (2 ^ s)

\* `a + b`: with overflow checks an overflow panics, without them it wraps
usize_add(a, b, checks) ==
  IF a + b >= Word
    THEN IF checks THEN [panic |-> TRUE, val |-> 0]
                   ELSE [panic |-> FALSE, val |-> (a + b) - Word]
    ELSE [panic |-> FALSE, val |-> a + b]

\* `a - b`
usize_sub(a, b, checks) ==
  IF a < b
    THEN IF checks THEN [panic |-> TRUE, val |-> 0]
                   ELSE [panic |-> FALSE, val |-> (a - b) + Word]
    ELSE [panic |-> FALSE, val |-> a - b]

\* Range<usize>::len and Range<usize>::contains
range_len(r) == IF r.start < r.end THEN r.end - r.start ELSE 0
range_contains(r, x) == r.start <= x /\ x < r.end

\* ------------------------------------------------------------ data types
MediaKinds ==
  { [media_type |-> "Sram32K", uses_prepare_write |-> FALSE],
    [media_type |-> "Flash64K", uses_prepare_write |-> TRUE] }

MediaInfo ==
  { [media_type |-> k.media_type, sector_shift |-> sh, sector_count |-> n,
     uses_prepare_write |-> k.uses_prepare_write] :
       k \in MediaKinds, sh \in Shifts, n \in 0 .. MaxSectors }

\* a backend (a &'static dyn RawSaveAccess) is identified by the MediaInfo
\* its info() hands out
Backends == MediaInfo
\* Option<T>
None == [some |-> FALSE]
Some(x) == [some |-> TRUE, val |-> x]
NoBackend == None

ValidationErrors == {"NoMedia", "OutOfBounds", "MediaInUse"}
BackendErrors == {"OperationTimedOut", "WriteError"}

Ok(v) == [tag |-> "Ok", val |-> v]
Err(e, who) == [tag |-> "Err", err |-> e, by |-> who]
Panicked == [tag |-> "Panic"]
Unit == "()"

IsErr(r, e) == r.tag = "Err" /\ r.err = e
\* an error raised by this layer's own checks, not by the backend
IsValidationFailure(r) ==
  r.tag = "Err" /\ r.by = "layer" /\ r.err \in ValidationErrors

BackendFail == { Err(e, "backend") : e \in BackendErrors }
\* what RawSaveAccess::info, read, verify, prepare_write, write may answer
InfoResults(b) == { Ok(b) } \cup BackendFail
UnitResults == { Ok(Unit) } \cup BackendFail
VerifyResults == { Ok(TRUE), Ok(FALSE) } \cup BackendFail

Ctx == {"main", "irq"}
NoTimer == "None"
Timers == {"timer3"}
NoAcc == None
NoBlock == None
Idle == [op |-> "none"]

\* ---------------------------------------------------------------- registry
\* variant: the assertion is missing, a later call replaces the backend
set_save_implementation_noassert(reg, access_impl) ==
  [panic |-> FALSE, reg |-> Some(access_impl)]

set_save_implementation(reg, access_impl) ==
  IF reg # NoBackend
    THEN [panic |-> TRUE, reg |-> reg]
    ELSE [panic |-> FALSE, reg |-> Some(access_impl)]

get_save_implementation(reg) == reg

\* utils::lock_media: try-lock of the media lock
lock_media(isLocked) ==
  IF isLocked THEN Err("MediaInUse", "layer") ELSE Ok(Unit)

\* ---------------------------------------------------------------- SaveData
\* variant: the result of lock_media is not looked at
SaveData_new_nolock(reg, isLocked, ires, timer) ==
  IF get_save_implementation(reg) = NoBackend
    THEN [result |-> Err("NoMedia", "layer"), locked |-> isLocked, acc |-> NoAcc,
          calls |-> <<>>]
    ELSE IF ires.tag # "Ok"
      THEN [result |-> ires, locked |-> FALSE, acc |-> NoAcc,
                calls |-> << [op |-> "info"] >>]
      ELSE [result |-> Ok(Unit), locked |-> TRUE, calls |-> << [op |-> "info"] >>,
            acc |-> Some([access |-> reg.val, info |-> ires.val,
                          timeout |-> timer])]

\* variant: the guard is leaked when info() fails
SaveData_new_leak(reg, isLocked, ires, timer) ==
  IF get_save_implementation(reg) = NoBackend
    THEN [result |-> Err("NoMedia", "layer"), locked |-> isLocked, acc |-> NoAcc,
          calls |-> <<>>]
    ELSE LET l == lock_media(isLocked) IN
      IF l.tag # "Ok"
        THEN [result |-> l, locked |-> isLocked, acc |-> NoAcc, calls |-> <<>>]
        ELSE IF ires.tag # "Ok"
          THEN [result |-> ires, locked |-> TRUE, acc |-> NoAcc,
                calls |-> << [op |-> "info"] >>]
          ELSE [result |-> Ok(Unit), locked |-> TRUE, calls |-> << [op |-> "info"] >>,
                acc |-> Some([access |-> reg.val, info |-> ires.val,
                              timeout |-> timer])]

\* variant: the timer is not handed to the Timeout
SaveData_new_notimer(reg, isLocked, ires, timer) ==
  IF get_save_implementation(reg) = NoBackend
    THEN [result |-> Err("NoMedia", "layer"), locked |-> isLocked, acc |-> NoAcc,
          calls |-> <<>>]
    ELSE LET l == lock_media(isLocked) IN
      IF l.tag # "Ok"
        THEN [result |-> l, locked |-> isLocked, acc |-> NoAcc, calls |-> <<>>]
        ELSE IF ires.tag # "Ok"
          THEN [result |-> ires, locked |-> FALSE, acc |-> NoAcc,
                calls |-> << [op |-> "info"] >>]
          ELSE [result |-> Ok(Unit), locked |-> TRUE, calls |-> << [op |-> "info"] >>,
                acc |-> Some([access |-> reg.val, info |-> ires.val,
                              timeout |-> NoTimer])]

\* variant: a refused attempt frees the lock of the holder
SaveData_new_steal(reg, isLocked, ires, timer) ==
  IF get_save_implementation(reg) = NoBackend
    THEN [result |-> Err("NoMedia", "layer"), locked |-> isLocked, acc |-> NoAcc,
          calls |-> <<>>]
    ELSE LET l == lock_media(isLocked) IN
      IF l.tag # "Ok"
        THEN [result |-> l, locked |-> FALSE, acc |-> NoAcc, calls |-> <<>>]
        ELSE IF ires.tag # "Ok"
          THEN [result |-> ires, locked |-> FALSE, acc |-> NoAcc,
                calls |-> << [op |-> "info"] >>]
          ELSE [result |-> Ok(Unit), locked |-> TRUE, calls |-> << [op |-> "info"] >>,
                acc |-> Some([access |-> reg.val, info |-> ires.val,
                              timeout |-> timer])]

\* outcome: the result, the lock afterwards, the accessor built (or NoAcc)
SaveData_new(reg, isLocked, ires, timer) ==
  IF get_save_implementation(reg) = NoBackend
    THEN [result |-> Err("NoMedia", "layer"), locked |-> isLocked, acc |-> NoAcc,
          calls |-> <<>>]
    ELSE LET l == lock_media(isLocked) IN
      IF l.tag # "Ok"
        THEN [result |-> l, locked |-> isLocked, acc |-> NoAcc, calls |-> <<>>]
        ELSE IF ires.tag # "Ok"
          \* `?` returns early; the guard already taken is dropped
          THEN [result |-> ires, locked |-> FALSE, acc |-> NoAcc,
                calls |-> << [op |-> "info"] >>]
          ELSE [result |-> Ok(Unit), locked |-> TRUE, calls |-> << [op |-> "info"] >>,
                acc |-> Some([access |-> reg.val, info |-> ires.val,
                              timeout |-> timer])]

media_info(self) == self.info
media_type(self) == self.info.media_type
sector_size(self) == Shl(1, self.info.sector_shift)
\* variant: the number of sectors is taken for the number of bytes
len_sectors(self) == self.info.sector_count

len(self) == Shl(self.info.sector_count, self.info.sector_shift)

\* variant: only the start of the range is checked
check_bounds_startonly(self, range) ==
  IF range.start >= len(self) THEN Err("OutOfBounds", "layer") ELSE Ok(Unit)

check_bounds(self, range) ==
  IF range.start >= len(self) \/ range.end >= len(self)
    THEN Err("OutOfBounds", "layer")
    ELSE Ok(Unit)

check_bounds_len(self, offset, n, checks) ==
  LET e == usize_add(offset, n, checks) IN
    IF e.panic THEN Panicked ELSE check_bounds(self, Range(offset, e.val))

\* variant: the backend is called before the bounds are checked
read_unchecked(self, offset, n, checks, bres) ==
  LET cb == check_bounds_len(self, offset, n, checks) IN
    [result |-> IF cb.tag # "Ok" THEN cb ELSE bres,
     calls |-> << [op |-> "read", offset |-> offset, len |-> n] >>]

read(self, offset, n, checks, bres) ==
  LET cb == check_bounds_len(self, offset, n, checks) IN
    IF cb.tag # "Ok"
      THEN [result |-> cb, calls |-> <<>>]
      ELSE [result |-> bres,
            calls |-> << [op |-> "read", offset |-> offset, len |-> n] >>]

verify(self, offset, n, checks, bres) ==
  LET cb == check_bounds_len(self, offset, n, checks) IN
    IF cb.tag # "Ok"
      THEN [result |-> cb, calls |-> <<>>]
      ELSE [result |-> bres,
            calls |-> << [op |-> "verify", offset |-> offset, len |-> n] >>]

\* variant: the end is rounded down like the start
align_range_rounddown(self, range, checks) ==
  LET shift == self.info.sector_shift
      mask == usize_sub(Shl(1, shift), 1, checks).val
  IN Ok(Range(BitAnd(range.start, BitNot(mask)),
              BitAnd(range.end, BitNot(mask))))

\* variant: the end is advanced by a whole sector before it is masked
align_range_nextsector(self, range, checks) ==
  LET shift == self.info.sector_shift
      mask == usize_sub(Shl(1, shift), 1, checks).val
      e == usize_add(range.end, Shl(1, shift), checks)
  IN IF e.panic
       THEN Panicked
       ELSE Ok(Range(BitAnd(range.start, BitNot(mask)),
                     BitAnd(e.val, BitNot(mask))))

align_range(self, range, checks) ==
  LET shift == self.info.sector_shift
      mask == usize_sub(Shl(1, shift), 1, checks).val
      e == usize_add(range.end, mask, checks)
  IN IF e.panic
       THEN Panicked
       ELSE Ok(Range(BitAnd(range.start, BitNot(mask)),
                     BitAnd(e.val, BitNot(mask))))

\* variant: the block handed out covers the aligned range
prepare_write_alignedblock(self, range, checks, bres) ==
  LET cb == check_bounds(self, range) IN
    IF cb.tag # "Ok"
      THEN [result |-> cb, calls |-> <<>>, block |-> NoBlock]
      ELSE IF self.info.uses_prepare_write
        THEN LET a == align_range(self, range, checks)
                 shift == self.info.sector_shift
             IN IF a.tag # "Ok"
                  THEN [result |-> a, calls |-> <<>>, block |-> NoBlock]
                  ELSE LET call == [op |-> "prepare_write",
                                    sector |-> Shr(a.val.start, shift),
                                    count |-> Shr(range_len(a.val), shift)]
                       IN IF bres.tag # "Ok"
                            THEN [result |-> bres, calls |-> <<call>>,
                                  block |-> NoBlock]
                            ELSE [result |-> Ok(Unit), calls |-> <<call>>,
                                  block |-> Some([range |-> a.val])]
        ELSE [result |-> Ok(Unit), calls |-> <<>>, block |-> Some([range |-> range])]

\* variant: the backend is told to erase whatever the medium is
prepare_write_always(self, range, checks, bres) ==
  LET cb == check_bounds(self, range) IN
    IF cb.tag # "Ok"
      THEN [result |-> cb, calls |-> <<>>, block |-> NoBlock]
      ELSE LET a == align_range(self, range, checks)
               shift == self.info.sector_shift
           IN IF a.tag # "Ok"
                THEN [result |-> a, calls |-> <<>>, block |-> NoBlock]
                ELSE LET call == [op |-> "prepare_write",
                                  sector |-> Shr(a.val.start, shift),
                                  count |-> Shr(range_len(a.val), shift)]
                     IN [result |-> Ok(Unit), calls |-> <<call>>,
                         block |-> Some([range |-> range])]

\* outcome: the result, the backend invocations, the block built (or NoBlock)
prepare_write(self, range, checks, bres) ==
  LET cb == check_bounds(self, range) IN
    IF cb.tag # "Ok"
      THEN [result |-> cb, calls |-> <<>>, block |-> NoBlock]
      ELSE IF self.info.uses_prepare_write
        THEN LET a == align_range(self, range, checks)
                 shift == self.info.sector_shift
             IN IF a.tag # "Ok"
                  THEN [result |-> a, calls |-> <<>>, block |-> NoBlock]
                  ELSE LET call == [op |-> "prepare_write",
                                    sector |-> Shr(a.val.start, shift),
                                    count |-> Shr(range_len(a.val), shift)]
                       IN IF bres.tag # "Ok"
                            THEN [result |-> bres, calls |-> <<call>>,
                                  block |-> NoBlock]
                            ELSE [result |-> Ok(Unit), calls |-> <<call>>,
                                  block |-> Some([range |-> range])]
        ELSE [result |-> Ok(Unit), calls |-> <<>>, block |-> Some([range |-> range])]

\* ------------------------------------------------------- SavePreparedBlock
\* variant: the offset is checked before the buffer is looked at
write_offsetfirst(blk, offset, n, checks, bres) ==
  IF ~range_contains(blk.range, offset)
    THEN [result |-> Err("OutOfBounds", "layer"), calls |-> <<>>]
    ELSE IF n = 0
      THEN [result |-> Ok(Unit), calls |-> <<>>]
      ELSE LET s == usize_add(offset, n, checks)
               e == usize_sub(s.val, 1, checks)
           IN IF s.panic \/ e.panic
                THEN [result |-> Panicked, calls |-> <<>>]
                ELSE IF ~range_contains(blk.range, e.val)
                  THEN [result |-> Err("OutOfBounds", "layer"), calls |-> <<>>]
                  ELSE [result |-> bres,
                        calls |-> << [op |-> "write", offset |-> offset,
                                      len |-> n] >>]

write(blk, offset, n, checks, bres) ==
  IF n = 0
    THEN [result |-> Ok(Unit), calls |-> <<>>]
    ELSE IF ~range_contains(blk.range, offset)
      THEN [result |-> Err("OutOfBounds", "layer"), calls |-> <<>>]
      ELSE LET s == usize_add(offset, n, checks)
               e == usize_sub(s.val, 1, checks)
           IN IF s.panic \/ e.panic
                THEN [result |-> Panicked, calls |-> <<>>]
                ELSE IF ~range_contains(blk.range, e.val)
                  THEN [result |-> Err("OutOfBounds", "layer"), calls |-> <<>>]
                  ELSE [result |-> bres,
                        calls |-> << [op |-> "write", offset |-> offset,
                                      len |-> n] >>]

\* variant: what verify found is not looked at
write_and_verify_nocompare(blk, parent, offset, n, checks, wres, vres) ==
  LET w == write(blk, offset, n, checks, wres) IN
    IF w.result.tag # "Ok"
      THEN w
      ELSE LET v == verify(parent, offset, n, checks, vres) IN
        IF v.result.tag # "Ok"
          THEN [result |-> v.result, calls |-> w.calls \o v.calls]
          ELSE [result |-> Ok(Unit), calls |-> w.calls \o v.calls]

write_and_verify(blk, parent, offset, n, checks, wres, vres) ==
  LET w == write(blk, offset, n, checks, wres) IN
    IF w.result.tag # "Ok"
      THEN w
      ELSE LET v == verify(parent, offset, n, checks, vres) IN
        IF v.result.tag # "Ok"
          THEN [result |-> v.result, calls |-> w.calls \o v.calls]
          ELSE IF ~v.result.val
            THEN [result |-> Err("WriteError", "layer"),
                  calls |-> w.calls \o v.calls]
            ELSE [result |-> Ok(Unit), calls |-> w.calls \o v.calls]

\* ------------------------------------------------------------------ actions
\* context c may take its next step: the process is alive, c is the context
\* the CPU is in, and the result of the previous call has been taken (a drop
\* returns nothing to take)
Running(c) ==
  /\ ~aborted
  /\ last.op \in {"none", "drop"}
  /\ (irq <=> c = "irq")
  /\ \A i \in 1 .. Len(inflight) : inflight[i].ctx # c

\* the arguments a context passes: the main flow any, the interrupt handler
\* those of a small fixed buffer
Offsets(c) == IF c = "main" THEN Usize ELSE {0, Word - 1}
Lens(c) == IF c = "main" THEN BufLens ELSE {1}
RangesOf(c) == IF c = "main" THEN Ranges ELSE {Range(0, 1)}

InitBits(bits) ==
  /\ usize_bits = bits
  /\ inflight = <<>>
  /\ overflow_checks \in BOOLEAN
  /\ registry = NoBackend
  /\ locked = FALSE
  /\ acc = [c \in Ctx |-> NoAcc]
  /\ block = [c \in Ctx |-> NoBlock]
  /\ last = Idle
  /\ irq = FALSE
  /\ aborted = FALSE

Init == InitBits(WordBits)

\* the registration call of the startup code (made before or between the
\* main flow's sessions)
Register(b) ==
  /\ Running("main")
  /\ acc["main"] = NoAcc
  /\ LET o == set_save_implementation(registry, b) IN
       /\ registry' = o.reg
       /\ aborted' = o.panic
       /\ last' = [op |-> "set_save_implementation", ctx |-> "main", arg |-> b,
                   result |-> IF o.panic THEN Panicked ELSE Ok(Unit),
                   calls |-> <<>>]
  /\ UNCHANGED <<usize_bits, inflight, overflow_checks, locked, acc, block, irq>>

\* SaveManager::access / access_with_timer.  A context keeps the accessor it
\* gets; one it would get while it already keeps one is a temporary, dropped
\* at the end of the statement.
Construct(c, name, timer, ires) ==
  /\ Running(c)
  /\ LET o == SaveData_new(registry, locked, ires, timer) IN
       /\ locked' = IF acc[c] # NoAcc /\ o.acc # NoAcc THEN FALSE ELSE o.locked
       /\ acc' = IF acc[c] = NoAcc THEN [acc EXCEPT ![c] = o.acc] ELSE acc
       /\ last' = [op |-> name, ctx |-> c, arg |-> timer, result |-> o.result,
                   calls |-> o.calls, prev |-> last.op]
  /\ UNCHANGED <<usize_bits, inflight, overflow_checks, registry, block, irq, aborted>>

access(c) ==
  \E ires \in (IF registry = NoBackend THEN {Ok(Unit)} ELSE InfoResults(registry.val)) :
    Construct(c, "access", NoTimer, ires)

access_with_timer(c) ==
  \E t \in Timers :
    \E ires \in (IF registry = NoBackend THEN {Ok(Unit)} ELSE InfoResults(registry.val)) :
      Construct(c, "access_with_timer", t, ires)

\* a method of the accessor; the borrow by a live block forbids it
CanUse(c) == Running(c) /\ acc[c] # NoAcc /\ block[c] = NoBlock

\* `answers` is what the backend answered to each of o.calls; `prepared` is
\* what the backend was told to erase when the block in use was prepared
Finish(c, name, arg, o, answers) ==
  /\ last' = [op |-> name, ctx |-> c, arg |-> arg, info |-> acc[c].val.info,
              range |-> IF block[c] = NoBlock THEN NoBlock ELSE Some(block[c].val.range),
              prepared |-> IF block[c] = NoBlock THEN <<>> ELSE block[c].val.prepared,
              result |-> o.result, calls |-> o.calls, answers |-> answers]
  /\ aborted' = (o.result.tag = "Panic")

\* the backend answers only when it is called: `answers` if the call made
\* with some answer reaches operation op of the backend
Reached(o, op) == \E i \in 1 .. Len(o.calls) : o.calls[i].op = op
Answers(o, op, answers) == IF Reached(o, op) THEN answers ELSE {Ok(Unit)}
Given(o, op, answer) == IF Reached(o, op) THEN <<answer>> ELSE <<>>

\* the getters of the accessor
Getter(c, name, value) ==
  /\ CanUse(c)
  /\ Finish(c, name, Unit, [result |-> Ok(value), calls |-> <<>>], <<>>)
  /\ UNCHANGED <<usize_bits, inflight, overflow_checks, registry, locked, acc, block, irq>>

CallMediaInfo(c) == Getter(c, "media_info", media_info(acc[c].val))
CallMediaType(c) == Getter(c, "media_type", media_type(acc[c].val))
CallSectorSize(c) == Getter(c, "sector_size", sector_size(acc[c].val))
CallLen(c) == Getter(c, "len", len(acc[c].val))

CallRead(c) ==
  /\ CanUse(c)
  /\ \E offset \in Offsets(c), n \in Lens(c) :
     \E bres \in Answers(read(acc[c].val, offset, n, overflow_checks, Ok(Unit)),
                         "read", UnitResults) :
       LET o == read(acc[c].val, offset, n, overflow_checks, bres) IN
         Finish(c, "read", [offset |-> offset, len |-> n], o, Given(o, "read", bres))
  /\ UNCHANGED <<usize_bits, inflight, overflow_checks, registry, locked, acc, block, irq>>

CallVerify(c) ==
  /\ CanUse(c)
  /\ \E offset \in Offsets(c), n \in Lens(c) :
     \E bres \in Answers(verify(acc[c].val, offset, n, overflow_checks, Ok(TRUE)),
                         "verify", VerifyResults) :
       LET o == verify(acc[c].val, offset, n, overflow_checks, bres) IN
         Finish(c, "verify", [offset |-> offset, len |-> n], o,
                Given(o, "verify", bres))
  /\ UNCHANGED <<usize_bits, inflight, overflow_checks, registry, locked, acc, block, irq>>

CallAlignRange(c) ==
  /\ CanUse(c)
  /\ \E r \in RangesOf(c) :
       Finish(c, "align_range", r,
              [result |-> align_range(acc[c].val, r, overflow_checks), calls |-> <<>>],
              <<>>)
  /\ UNCHANGED <<usize_bits, inflight, overflow_checks, registry, locked, acc, block, irq>>

\* the block a prepare_write hands out, with what it had the backend erase
Prepared(o) ==
  IF o.block = NoBlock
    THEN NoBlock
    ELSE Some([range |-> o.block.val.range, prepared |-> o.calls])

CallPrepareWrite(c) ==
  /\ CanUse(c)
  /\ \E r \in RangesOf(c) :
     \E bres \in Answers(prepare_write(acc[c].val, r, overflow_checks, Ok(Unit)),
                         "prepare_write", UnitResults) :
       LET o == prepare_write(acc[c].val, r, overflow_checks, bres) IN
         /\ Finish(c, "prepare_write", r, o, Given(o, "prepare_write", bres))
         /\ block' = [block EXCEPT ![c] = Prepared(o)]
  /\ UNCHANGED <<usize_bits, inflight, overflow_checks, registry, locked, acc, irq>>

HasBlock(c) == Running(c) /\ acc[c] # NoAcc /\ block[c] # NoBlock

CallWrite(c) ==
  /\ HasBlock(c)
  /\ \E offset \in Offsets(c), n \in Lens(c) :
     \E bres \in Answers(write(block[c].val, offset, n, overflow_checks, Ok(Unit)),
                         "write", UnitResults) :
       LET o == write(block[c].val, offset, n, overflow_checks, bres) IN
         Finish(c, "write", [offset |-> offset, len |-> n], o, Given(o, "write", bres))
  /\ UNCHANGED <<usize_bits, inflight, overflow_checks, registry, locked, acc, block, irq>>

CallWriteAndVerify(c) ==
  /\ HasBlock(c)
  /\ \E offset \in Offsets(c), n \in Lens(c) :
     \E wres \in Answers(write(block[c].val, offset, n, overflow_checks, Ok(Unit)),
                         "write", UnitResults) :
     \E vres \in Answers(write_and_verify(block[c].val, acc[c].val, offset, n,
                                          overflow_checks, wres, Ok(TRUE)),
                         "verify", VerifyResults) :
       LET o == write_and_verify(block[c].val, acc[c].val, offset, n,
                                 overflow_checks, wres, vres)
       IN Finish(c, "write_and_verify", [offset |-> offset, len |-> n], o,
                 Given(o, "write", wres) \o Given(o, "verify", vres))
  /\ UNCHANGED <<usize_bits, inflight, overflow_checks, registry, locked, acc, block, irq>>

\* the block goes out of scope: the accessor is usable again
DropBlock(c) ==
  /\ HasBlock(c)
  /\ block' = [block EXCEPT ![c] = NoBlock]
  /\ UNCHANGED <<usize_bits, inflight, overflow_checks, registry, locked, acc, last, irq, aborted>>

\* the accessor goes out of scope: its lock guard releases the media lock
DropAccessor(c) ==
  /\ Running(c)
  /\ acc[c] # NoAcc
  /\ block[c] = NoBlock
  /\ acc' = [acc EXCEPT ![c] = NoAcc]
  /\ locked' = FALSE
  /\ last' = [op |-> "drop", ctx |-> c]
  /\ UNCHANGED <<usize_bits, inflight, overflow_checks, registry, block, irq, aborted>>

\* an interrupt preempts the main flow between two of its steps
IrqEnter ==
  /\ Running("main")
  /\ irq' = TRUE
  /\ UNCHANGED <<usize_bits, inflight, overflow_checks, registry, locked, acc, block, last, aborted>>

\* the handler returns once its locals are gone
IrqReturn ==
  /\ Running("irq")
  /\ acc["irq"] = NoAcc
  /\ irq' = FALSE
  /\ UNCHANGED <<usize_bits, inflight, overflow_checks, registry, locked, acc, block, last, aborted>>

\* the caller takes the result of the call it made and goes on
TakeResult ==
  /\ ~aborted
  /\ last.op \notin {"none", "drop"}
  /\ last' = Idle
  /\ UNCHANGED <<usize_bits, inflight, overflow_checks, registry, locked, acc, block, irq, aborted>>

Next ==
  \/ \E b \in Backends : Register(b)
  \/ \E c \in Ctx : access(c)
  \/ \E c \in Ctx : access_with_timer(c)
  \/ \E c \in Ctx : CallRead(c)
  \/ \E c \in Ctx : CallVerify(c)
  \/ \E c \in Ctx : CallMediaInfo(c)
  \/ \E c \in Ctx : CallMediaType(c)
  \/ \E c \in Ctx : CallSectorSize(c)
  \/ \E c \in Ctx : CallLen(c)
  \/ \E c \in Ctx : CallAlignRange(c)
  \/ \E c \in Ctx : CallPrepareWrite(c)
  \/ \E c \in Ctx : CallWrite(c)
  \/ \E c \in Ctx : CallWriteAndVerify(c)
  \/ \E c \in Ctx : DropBlock(c)
  \/ \E c \in Ctx : DropAccessor(c)
  \/ IrqEnter
  \/ IrqReturn
  \/ TakeResult

Spec == Init /\ [][Next]_vars

\* ------------------------------------------- interrupts inside backend calls
\* A backend operation takes time, and an interrupt may be served while the
\* main flow is inside one.  The calls of Started are made in two steps, so
\* that states with a backend operation under way exist: BeginBackendOp
\* enters the backend, EndBackendOp returns from it and finishes the call.

\* a call with its arguments, the backend's answers and its outcome
StartedCall(name, arg, answers, o) ==
  [name |-> name, arg |-> arg, answers |-> answers, o |-> o]

\* the calls context c can make now (with a small fixed buffer), one set per
\* operation; those that reach the backend are entered
StartedAccess(c) ==
  IF acc[c] = NoAcc /\ registry # NoBackend
    THEN { StartedCall("access", NoTimer, <<ires>>,
                       SaveData_new(registry, locked, ires, NoTimer)) :
             ires \in InfoResults(registry.val) }
    ELSE {}

StartedRead(c) ==
  IF acc[c] # NoAcc /\ block[c] = NoBlock
    THEN { StartedCall("read", [offset |-> 0, len |-> 1], <<bres>>,
                       read(acc[c].val, 0, 1, overflow_checks, bres)) :
             bres \in UnitResults }
    ELSE {}

StartedVerify(c) ==
  IF acc[c] # NoAcc /\ block[c] = NoBlock
    THEN { StartedCall("verify", [offset |-> 0, len |-> 1], <<bres>>,
                       verify(acc[c].val, 0, 1, overflow_checks, bres)) :
             bres \in VerifyResults }
    ELSE {}

StartedPrepareWrite(c) ==
  IF acc[c] # NoAcc /\ block[c] = NoBlock
    THEN { StartedCall("prepare_write", Range(0, 1), <<bres>>,
                       prepare_write(acc[c].val, Range(0, 1), overflow_checks, bres)) :
             bres \in UnitResults }
    ELSE {}

StartedWrite(c) ==
  IF acc[c] # NoAcc /\ block[c] # NoBlock
    THEN { StartedCall("write", [offset |-> 0, len |-> 1], <<bres>>,
                       write(block[c].val, 0, 1, overflow_checks, bres)) :
             bres \in UnitResults }
    ELSE {}

StartedWriteAndVerify(c) ==
  IF acc[c] # NoAcc /\ block[c] # NoBlock
    THEN { StartedCall("write_and_verify", [offset |-> 0, len |-> 1],
                       <<Ok(Unit), vres>>,
                       write_and_verify(block[c].val, acc[c].val, 0, 1,
                                        overflow_checks, Ok(Unit), vres)) :
             vres \in VerifyResults }
    ELSE {}

\* context c enters the backend for the call s; SaveData::new calls info()
\* with the lock guard already taken
Enter(c, s) ==
  /\ s.o.calls # <<>>
  /\ inflight' = Append(inflight, [ctx |-> c, name |-> s.name, arg |-> s.arg,
                                   answers |-> s.answers, o |-> s.o])
  /\ locked' = IF s.name = "access" THEN TRUE ELSE locked

BeginBackendOp(c) ==
  /\ Running(c)
  /\ \/ \E s \in StartedAccess(c) : Enter(c, s)
     \/ \E s \in StartedRead(c) : Enter(c, s)
     \/ \E s \in StartedVerify(c) : Enter(c, s)
     \/ \E s \in StartedPrepareWrite(c) : Enter(c, s)
     \/ \E s \in StartedWrite(c) : Enter(c, s)
     \/ \E s \in StartedWriteAndVerify(c) : Enter(c, s)
  /\ UNCHANGED <<usize_bits, overflow_checks, registry, acc, block, last, irq, aborted>>

\* the backend returns to the context the CPU is in, and the call finishes
EndBackendOp ==
  /\ ~aborted
  /\ inflight # <<>>
  /\ last.op \in {"none", "drop"}
  /\ LET p == inflight[Len(inflight)]
         c == p.ctx
     IN /\ (irq <=> c = "irq")
        /\ inflight' = SubSeq(inflight, 1, Len(inflight) - 1)
        /\ IF p.name = "access"
             THEN /\ locked' = p.o.locked
                  /\ acc' = [acc EXCEPT ![c] = p.o.acc]
                  /\ last' = [op |-> p.name, ctx |-> c, arg |-> p.arg,
                              result |-> p.o.result, calls |-> p.o.calls,
                              prev |-> last.op]
                  /\ UNCHANGED <<block, aborted>>
             ELSE /\ Finish(c, p.name, p.arg, p.o, p.answers)
                  /\ block' = IF p.name = "prepare_write"
                                THEN [block EXCEPT ![c] = Prepared(p.o)]
                                ELSE block
                  /\ UNCHANGED <<locked, acc>>
  /\ UNCHANGED <<usize_bits, overflow_checks, registry, irq>>

\* an interrupt is served while the main flow is inside the backend
PreemptBackendOp ==
  /\ ~aborted
  /\ ~irq
  /\ inflight # <<>>
  /\ irq' = TRUE
  /\ UNCHANGED <<usize_bits, inflight, overflow_checks, registry, locked, acc, block, last, aborted>>

NextIrq ==
  \/ Next
  \/ \E c \in Ctx : BeginBackendOp(c)
  \/ EndBackendOp
  \/ PreemptBackendOp

SpecIrq == Init /\ [][NextIrq]_vars

\* The write path of the main flow on a target whose usize is one bit wider:
\* with that width a buffer of at most isize::MAX bytes can carry
\* offset + buffer.len() past usize::MAX from inside a block.
InitWide == InitBits(WordBits + 1)

NextWide ==
  \/ \E b \in Backends : Register(b)
  \/ access("main")
  \/ CallPrepareWrite("main")
  \/ CallWrite("main")
  \/ DropBlock("main")
  \/ DropAccessor("main")
  \/ TakeResult

SpecWide == InitWide /\ [][NextWide]_vars

\* ------------------------------------------------------------------ claims
LiveAccessors == {c \in Ctx : acc[c] # NoAcc}
\* the step is a call of access() or access_with_timer() by context c
IsConstruct(c) ==
  /\ last'.op \in {"access", "access_with_timer"}
  /\ last.op \in {"none", "drop"}
  /\ last'.ctx = c
  /\ (access(c) \/ access_with_timer(c))
InfoFailed(r) == r.tag = "Err" /\ r.by = "backend"

C2_NextAccessSucceeds ==
  [][\A c \in Ctx :
       (last.op = "drop" /\ registry # NoBackend /\ LiveAccessors = {}
          /\ IsConstruct(c))
         => (last'.result.tag = "Ok" /\ acc'[c] # NoAcc)]_vars

\* C2 (amended): dropping the accessor frees the lock, and the first
\* construction after the release is never refused with MediaInUse or
\* NoMedia: it returns an accessor holding the lock, unless the backend's
\* info() fails, in which case that error is returned and the lock is free.
C2_ReleaseThenAccess ==
  /\ [][\A c \in Ctx : (last'.op = "drop" /\ DropAccessor(c)) => ~locked']_vars
  /\ [][\A c \in Ctx :
          (last.op = "drop" /\ registry # NoBackend /\ LiveAccessors = {}
             /\ IsConstruct(c))
            => \/ (last'.result.tag = "Ok" /\ acc'[c] # NoAcc /\ locked')
               \/ (InfoFailed(last'.result) /\ acc'[c] = NoAcc /\ ~locked')]_vars

\* C2 witness: the first access() after the previous accessor was dropped has
\* returned a new accessor.
C2_Witness ==
  /\ last.op = "access"
  /\ last.prev = "drop"
  /\ last.result.tag = "Ok"
  /\ acc[last.ctx] # NoAcc
  /\ locked

\* C3 (as claimed): NoMedia without a backend, MediaInUse with the lock held,
\* otherwise an accessor.
C3_ThreeOutcomes ==
  [][\A c \in Ctx :
       IsConstruct(c)
         => \/ (registry = NoBackend /\ IsErr(last'.result, "NoMedia"))
            \/ (registry # NoBackend /\ locked
                  /\ IsErr(last'.result, "MediaInUse"))
            \/ (registry # NoBackend /\ ~locked /\ last'.result.tag = "Ok"
                  /\ acc'[c] # NoAcc)]_vars

\* what a construction that passes both checks and whose info() succeeds
\* leaves behind
BuiltWith(c, timer) ==
  /\ last'.result = Ok(Unit)
  /\ locked'
  /\ acc'[c] = Some([access |-> registry.val, info |-> registry.val,
                     timeout |-> timer])

\* C3 (amended): NoMedia without a backend; MediaInUse with a backend and the
\* lock held; otherwise, if the backend's info() succeeds, an accessor that
\* holds the lock and carries the registered backend, its MediaInfo and the
\* timer passed (none for access()); if info() fails, that error and no
\* accessor.  Failures leave lock and accessors as they were.
C3_ConstructOutcomes ==
  [][\A c \in Ctx : \A t \in Timers \cup {NoTimer} :
       \A ires \in InfoResults(IF registry = NoBackend THEN Unit ELSE registry.val) :
         \A name \in {"access", "access_with_timer"} :
           (last'.op = name /\ last.op \in {"none", "drop"}
              /\ Construct(c, name, t, ires))
             => /\ (name = "access") => (t = NoTimer)
                /\ (name = "access_with_timer") => (t \in Timers)
                /\ \/ /\ registry = NoBackend
                      /\ IsErr(last'.result, "NoMedia")
                      /\ last'.result.by = "layer"
                      /\ acc' = acc /\ locked' = locked
                   \/ /\ registry # NoBackend /\ locked
                      /\ IsErr(last'.result, "MediaInUse")
                      /\ last'.result.by = "layer"
                      /\ acc' = acc /\ locked' = locked
                   \/ /\ registry # NoBackend /\ ~locked /\ ires.tag = "Ok"
                      /\ BuiltWith(c, t)
                   \/ /\ registry # NoBackend /\ ~locked /\ ires.tag # "Ok"
                      /\ last'.result = ires
                      /\ acc' = acc /\ locked' = locked]_vars

\* C3 witness: access_with_timer has returned an accessor that carries the
\* timer.
C3_Witness ==
  /\ last.op = "access_with_timer"
  /\ last.result.tag = "Ok"
  /\ acc[last.ctx] # NoAcc
  /\ acc[last.ctx].val.timeout \in Timers
  /\ locked

\* C4: the registry is empty before the first set(); the first set() stores
\* its backend; a later set() aborts the process and leaves the registered
\* backend in place; once set, the registered backend never changes.
C4_RegisterOnce ==
  /\ get_save_implementation(registry) = NoBackend
  /\ [][registry # NoBackend => registry' = registry]_vars
  /\ [][\A b \in Backends :
          (last'.op = "set_save_implementation" /\ last'.arg = b /\ Register(b))
            => IF registry = NoBackend
                 THEN /\ get_save_implementation(registry') = Some(b)
                      /\ ~aborted'
                      /\ last'.result = Ok(Unit)
                 ELSE /\ registry' = registry
                      /\ aborted'
                      /\ last'.result = Panicked]_vars

\* C4 witness: a second set(), with another backend, has aborted the process
\* and the first backend is still the registered one.
C4_Witness ==
  /\ aborted
  /\ last.op = "set_save_implementation"
  /\ registry # NoBackend
  /\ registry.val # last.arg

\* the accessor the last call was made on, and its capacity
LastSelf == [info |-> last.info]
LastCapacity == (last.info.sector_count * (2 ^ last.info.sector_shift)) % Word
IsReadOrVerify == last.op \in {"read", "verify"}
\* the sum offset + buffer.len() of the last call exists as a usize: it did
\* not panic on overflow
LastSumExists ==
  ~(overflow_checks /\ last.arg.offset + last.arg.len >= Word)
\* the end of the range offset..offset+buffer.len() of the last call
LastEnd == (last.arg.offset + last.arg.len) % Word

C6_InBoundsReachesBackend ==
  (IsReadOrVerify /\ last.arg.offset + last.arg.len <= LastCapacity)
    => /\ ~IsValidationFailure(last.result)
       /\ last.calls = << [op |-> last.op, offset |-> last.arg.offset,
                            len |-> last.arg.len] >>

\* the bytes a backend call touches lie inside [0, capacity)
CallInBounds(call) ==
  call.op \in {"read", "verify", "write"}
    => (call.offset < LastCapacity /\ call.offset + call.len <= LastCapacity)

\* C7 (as claimed): every read, verify or write that reaches the backend has
\* offset < capacity and offset + length <= capacity, wrapped sums included.
C7_BackendCallsInBounds ==
  (last.op \in {"read", "verify", "write", "write_and_verify"})
    => \A i \in 1 .. Len(last.calls) : CallInBounds(last.calls[i])

\* C8: a read, verify, prepare_write, write or construction that fails one of
\* this layer's validations (OutOfBounds, MediaInUse, NoMedia) has called no
\* backend operation, so storage and the backend's call history are as they
\* were; a refused prepare_write leaves no block.
C8_ValidationBeforeBackend ==
  (last.op \in {"read", "verify", "prepare_write", "write", "access",
                "access_with_timer"}
     /\ IsValidationFailure(last.result))
    => /\ last.calls = <<>>
       /\ (last.op = "prepare_write") => (block[last.ctx] = NoBlock)

\* C8 witness: a read past the capacity has been refused.
C8_Witness ==
  /\ last.op = "read"
  /\ last.arg.offset < LastCapacity
  /\ last.arg.offset + last.arg.len > LastCapacity
  /\ IsValidationFailure(last.result)
  /\ last.calls = <<>>

\* sector_size() as a number, and x rounded to its multiples
LastSectorSize == 2 ^ last.info.sector_shift
RoundDown(x, m) == x - (x % m)
RoundUp(x, m) == IF x % m = 0 THEN x ELSE (x - (x % m)) + m

\* the range align_range must return
AlignedAsSpecified ==
  /\ last.result.tag = "Ok"
  /\ LET r == last.arg
         a == last.result.val
     IN /\ a.start % LastSectorSize = 0
        /\ a.end % LastSectorSize = 0
        /\ a.start <= r.start
        /\ a.end >= r.end
        /\ a.start = RoundDown(r.start, LastSectorSize)
        /\ a.end = RoundUp(r.end, LastSectorSize)
        /\ (last.info.sector_shift = 0) => (a = r)

\* C9 (as claimed): for every range r with r.start <= r.end, align_range(r)
\* is the smallest range with sector-aligned bounds that contains r.
C9_AlignsEveryRange ==
  (last.op = "align_range" /\ last.arg.start <= last.arg.end)
    => AlignedAsSpecified

\* C9 (amended): the same, for every range r with r.start <= r.end whose end
\* rounded up to a sector boundary fits a usize, that is
\* r.end + (sector_size() - 1) <= usize::MAX.
C9_AlignsRepresentable ==
  (last.op = "align_range" /\ last.arg.start <= last.arg.end
     /\ last.arg.end + (LastSectorSize - 1) <= Word - 1)
    => AlignedAsSpecified

\* C9 witness: a range with neither bound on a sector boundary has been
\* widened on both sides.
C9_Witness ==
  /\ last.op = "align_range"
  /\ last.arg.start < last.arg.end
  /\ last.result.tag = "Ok"
  /\ last.result.val.start < last.arg.start
  /\ last.result.val.end > last.arg.end

\* C10: align_range applied to a range it returned returns that range.
C10_AlignIdempotent ==
  (last.op = "align_range" /\ last.result.tag = "Ok")
    => align_range(LastSelf, last.result.val, overflow_checks)
         = Ok(last.result.val)

\* C10 witness: align_range has returned a range other than its argument.
C10_Witness ==
  /\ last.op = "align_range"
  /\ last.result.tag = "Ok"
  /\ last.result.val # last.arg
  /\ last.info.sector_shift > 0

\* the sectors (by index) that share at least one byte with the range r
Overlapping(r, ss) ==
  {k \in 0 .. Word : k * ss < r.end /\ (k + 1) * ss > r.start /\ r.start < r.end}
\* the sectors a backend prepare_write call erases
ErasedBy(call) == {k \in 0 .. Word : call.sector <= k /\ k < call.sector + call.count}
\* the accessor's prepare_write has returned Ok on a medium that needs it
PreparedOk ==
  /\ last.op = "prepare_write"
  /\ last.info.uses_prepare_write
  /\ last.result.tag = "Ok"

\* C11: on a medium with uses_prepare_write, a successful prepare_write(r)
\* invokes the backend's prepare_write exactly once, with
\* sector = align_range(r).start >> sector_shift and
\* count = len(align_range(r)) >> sector_shift; for a non-empty r these are
\* exactly the sectors that overlap r; the block handed out is scoped to r
\* itself, not to the aligned range.
C11_ErasesOverlappingSectors ==
  PreparedOk =>
    LET r == last.arg
        ss == LastSectorSize
        astart == RoundDown(r.start, ss)
        aend == RoundUp(r.end, ss)
    IN /\ Len(last.calls) = 1
       /\ last.calls[1].op = "prepare_write"
       /\ last.calls[1].sector = astart \div ss
       /\ last.calls[1].count = (IF astart < aend THEN aend - astart ELSE 0) \div ss
       /\ (r.start < r.end) => (ErasedBy(last.calls[1]) = Overlapping(r, ss))
       /\ block[last.ctx] # NoBlock
       /\ block[last.ctx].val.range = r

\* C11 witness: a range inside two sectors, on neither boundary of either,
\* has been prepared: both sectors were erased and the block keeps the range.
C11_Witness ==
  /\ PreparedOk
  /\ last.arg.start < last.arg.end
  /\ last.arg.start % LastSectorSize # 0
  /\ last.arg.end % LastSectorSize # 0
  /\ last.calls = << [op |-> "prepare_write", sector |-> 0, count |-> 2] >>
  /\ block[last.ctx].val.range = last.arg

\* the bytes offset .. offset + len (as numbers) all lie inside the range r
SpanInside(offset, n, r) == r.start <= offset /\ offset + n <= r.end
\* a write of a non-empty buffer through a block
IsNonEmptyWrite == last.op = "write" /\ last.arg.len > 0

\* C12: a write of a non-empty buffer returns OutOfBounds, without calling
\* the backend, whenever the bytes offset .. offset + buffer.len() are not
\* all inside the block's range (the requested range, not the erased one);
\* when they are, the backend's write is called once with the same offset
\* and buffer and its result is returned unchanged.
C12_WriteInsideBlock ==
  IsNonEmptyWrite =>
    IF SpanInside(last.arg.offset, last.arg.len, last.range.val)
      THEN /\ last.calls = << [op |-> "write", offset |-> last.arg.offset,
                               len |-> last.arg.len] >>
           /\ last.result = last.answers[1]
      ELSE /\ IsErr(last.result, "OutOfBounds")
           /\ last.calls = <<>>

\* C13: a write of an empty buffer returns Ok for every offset, inside the
\* block's range or not, and does not call the backend.
C13_EmptyWriteSucceeds ==
  (last.op = "write" /\ last.arg.len = 0)
    => (last.result = Ok(Unit) /\ last.calls = <<>>)

\* C13 witness: an empty buffer has been written at an offset past the end
\* of the block's range, and the call returned Ok.
C13_Witness ==
  /\ last.op = "write"
  /\ last.arg.len = 0
  /\ last.arg.offset >= last.range.val.end
  /\ last.result = Ok(Unit)

\* the backend operations of the last call, in order, and what the backend
\* answered to operation op of the last call (Unanswered if it was not called)
LastOps == [i \in 1 .. Len(last.calls) |-> last.calls[i].op]
Unanswered == [tag |-> "None"]
LastAnswer(op) ==
  IF \E i \in 1 .. Len(last.calls) : last.calls[i].op = op
    THEN last.answers[CHOOSE i \in 1 .. Len(last.calls) : last.calls[i].op = op]
    ELSE Unanswered

\* C14: write_and_verify writes first and verifies second, each backend
\* operation at most once and on the same offset and buffer: an error of the
\* write is returned without verify being invoked; a verify that reports a
\* mismatch gives WriteError; an error of verify is returned unchanged; the
\* result is Ok only when the write succeeded and verify reported a match.
C14_WriteThenVerify ==
  (last.op = "write_and_verify") =>
    LET w == LastAnswer("write")
        v == LastAnswer("verify")
    IN /\ LastOps \in {<<>>, <<"write">>, <<"verify">>, <<"write", "verify">>}
       /\ \A i \in 1 .. Len(last.calls) :
            /\ last.calls[i].offset = last.arg.offset
            /\ last.calls[i].len = last.arg.len
       \* a non-empty buffer is verified only after the backend wrote it
       /\ (v # Unanswered /\ last.arg.len > 0) => w = Ok(Unit)
       /\ (w.tag = "Err") => (last.result = w /\ v = Unanswered)
       /\ (v = Ok(FALSE)) => (last.result = Err("WriteError", "layer"))
       /\ (v.tag = "Err") => (last.result = v)
       /\ (v = Ok(TRUE)) => (last.result = Ok(Unit))
       /\ (last.result.tag = "Ok") => (v = Ok(TRUE) /\ w \in {Ok(Unit), Unanswered})

\* C14 witness: the backend wrote the buffer, verify found other bytes, and
\* write_and_verify returned WriteError.
C14_Witness ==
  /\ last.op = "write_and_verify"
  /\ LastOps = <<"write", "verify">>
  /\ last.answers = << Ok(Unit), Ok(FALSE) >>
  /\ last.result = Err("WriteError", "layer")

\* what each getter must return for the MediaInfo m
GetterValue(name, m) ==
  CASE name = "media_info" -> m
    [] name = "media_type" -> m.media_type
    [] name = "sector_size" -> (2 ^ m.sector_shift) % Word
    [] name = "len" -> (m.sector_count * (2 ^ m.sector_shift)) % Word
Getters == {"media_info", "media_type", "sector_size", "len"}

\* C15: sector_size() is 1 << sector_shift and len() is
\* sector_count << sector_shift (as usize), of the MediaInfo the backend
\* handed out at construction; media_info, media_type, sector_size and len
\* return the same values before and after any operations, because no
\* operation changes the MediaInfo a live accessor keeps.
C15_GettersAreFixed ==
  /\ [](last.op \in Getters
          => last.result = Ok(GetterValue(last.op, registry.val)))
  /\ [][\A c \in Ctx :
          (acc[c] # NoAcc /\ acc'[c] # NoAcc) => acc'[c].val.info = acc[c].val.info]_vars

\* C15 witness: len() has returned the byte capacity of a medium of several
\* sectors of several bytes.
C15_Witness ==
  /\ last.op = "len"
  /\ last.info.sector_shift > 0
  /\ last.info.sector_count > 1
  /\ last.result = Ok(last.info.sector_count * (2 ^ last.info.sector_shift))

\* the write invocations the last call made on the backend
LastWrites ==
  IF last.op \in {"write", "write_and_verify"}
    THEN {i \in 1 .. Len(last.calls) : last.calls[i].op = "write"}
    ELSE {}
\* sector k was erased when the block used by the last call was prepared
ErasedForBlock(k) ==
  /\ Len(last.prepared) = 1
  /\ k \in ErasedBy(last.prepared[1])

\* C16: every write that reaches the backend goes through a block that a
\* successful prepare_write of the same accessor handed out and whose
\* requested range contains every byte written; a prepare_write that fails
\* hands out no block; on a medium with uses_prepare_write every byte written
\* lies in a sector the backend was told to erase when the block was prepared.
C16_WritesArePrepared ==
  /\ (last.op = "prepare_write" /\ last.result.tag # "Ok")
       => block[last.ctx] = NoBlock
  /\ \A i \in LastWrites :
       LET offset == last.calls[i].offset
           n == last.calls[i].len
       IN /\ last.range # NoBlock
          /\ SpanInside(offset, n, last.range.val)
          /\ last.info.uses_prepare_write
               => \A byte \in offset .. (offset + n - 1) :
                    ErasedForBlock(byte \div LastSectorSize)

\* the last call was made by a context other than the one inside the backend
CalledDuringBackendOp ==
  /\ inflight # <<>>
  /\ last.op \notin {"none", "drop"}
  /\ last.ctx # inflight[1].ctx

\* C17: with a main flow and an interrupt handler, backend operations are
\* strictly sequential: never are two of them under way, and no call made
\* while another context is inside the backend reaches the backend, because
\* the handler's access() returns MediaInUse while the main flow holds the
\* lock, and because prepare_write is only callable on an accessor with no
\* block outstanding.
C17_BackendOpsSequential ==
  /\ Len(inflight) <= 1
  /\ CalledDuringBackendOp => last.calls = <<>>
  /\ (CalledDuringBackendOp /\ last.op \in {"access", "access_with_timer"})
       => IsErr(last.result, "MediaInUse")
  /\ (last.op = "prepare_write") => (last.range = NoBlock)
  /\ \A c \in Ctx : block[c] # NoBlock => acc[c] # NoAcc

\* C17 witness: the main flow is inside a backend write, the handler has
\* called access() and got MediaInUse.
C17_Witness ==
  /\ irq
  /\ Len(inflight) = 1
  /\ inflight[1].ctx = "main"
  /\ inflight[1].name = "write"
  /\ last.op = "access"
  /\ last.ctx = "irq"
  /\ IsErr(last.result, "MediaInUse")

\* C18: on a medium without uses_prepare_write, prepare_write(r) never calls
\* the backend; it still checks r against the capacity (OutOfBounds, and no
\* block, when the start or the end of r is at or past it) and otherwise
\* returns Ok and a block scoped to r.
C18_NoEraseWithoutPrepare ==
  (last.op = "prepare_write" /\ ~last.info.uses_prepare_write) =>
    /\ last.calls = <<>>
    /\ IF last.arg.start >= LastCapacity \/ last.arg.end >= LastCapacity
         THEN /\ IsErr(last.result, "OutOfBounds")
              /\ block[last.ctx] = NoBlock
         ELSE /\ last.result = Ok(Unit)
              /\ block[last.ctx] # NoBlock
              /\ block[last.ctx].val.range = last.arg

\* C18 witness: a range on no sector boundary has been prepared on a medium
\* without uses_prepare_write: a block for it, and no backend call.
C18_Witness ==
  /\ last.op = "prepare_write"
  /\ ~last.info.uses_prepare_write
  /\ last.info.sector_shift > 0
  /\ last.arg.start % LastSectorSize # 0
  /\ last.arg.start < last.arg.end
  /\ last.result = Ok(Unit)
  /\ last.calls = <<>>
  /\ block[last.ctx] = Some([range |-> last.arg, prepared |-> <<>>])

\* C19: every prepare_write the accessor issues to the backend addresses
\* existing sectors only, sector + count <= sector_count of the registered
\* MediaInfo, and prepare_write never panics on an arithmetic overflow: for
\* a range the bounds check accepts, the alignment arithmetic stays within
\* usize.
C19_ErasesExistingSectors ==
  (last.op = "prepare_write") =>
    /\ last.result.tag # "Panic"
    /\ \A i \in 1 .. Len(last.calls) :
         /\ last.calls[i].op = "prepare_write"
         /\ last.calls[i].sector + last.calls[i].count <= registry.val.sector_count

\* C19 witness: a range that ends inside the last sector has been prepared,
\* and the backend was told to erase up to and including the last sector.
C19_Witness ==
  /\ PreparedOk
  /\ last.arg.end % LastSectorSize # 0
  /\ Len(last.calls) = 1
  /\ last.calls[1].count > 0
  /\ last.calls[1].sector + last.calls[1].count = registry.val.sector_count

\* C20: a construction that fails leaves the lock as it found it and builds
\* no accessor: NoMedia is returned without touching the lock or the backend,
\* MediaInUse leaves the lock with its holder, and when info() fails after
\* the lock was taken the lock is free again afterwards; and a construction
\* that finds the lock free is never refused with MediaInUse.
C20_FailedAccessKeepsLock ==
  [][\A c \in Ctx :
       IsConstruct(c) =>
         /\ (last'.result.tag # "Ok") => (locked' = locked /\ acc' = acc)
         /\ IsErr(last'.result, "NoMedia") => last'.calls = <<>>
         /\ IsErr(last'.result, "MediaInUse") => (locked /\ last'.calls = <<>>)
         /\ InfoFailed(last'.result) => (~locked /\ ~locked')
         /\ ~locked => ~IsErr(last'.result, "MediaInUse")]_vars

\* C20 witness: access() has failed on the backend's info(), nobody holds an
\* accessor and the lock is free.
C20_Witness ==
  /\ last.op = "access"
  /\ InfoFailed(last.result)
  /\ last.calls = << [op |-> "info"] >>
  /\ LiveAccessors = {}
  /\ ~locked

====
